---- MODULE Spec2Model ----
(***************************************************************************)
(* The project wizard of recog4.py / recog5.py (Streamlit Project Maker)   *)
(* and its helpers clean_json_text, parse_gemini_json.                     *)
(*                                                                         *)
(* A text is a sequence of one-character strings.  A parsed JSON value is  *)
(* a record [t |-> tag, v |-> payload]; Python's None is the JSON null.    *)
(* One step of the wizard is one run of the script, started either by a    *)
(* user interaction or by st.rerun().                                      *)
(***************************************************************************)
EXTENDS Integers, Sequences, FiniteSets, TLC

\* ------------------------------------------------------------------------
\* Characters
\* ------------------------------------------------------------------------
QT == "\""
BS == "\\"
NL == "\n"
CR == "\r"
TAB == "\t"
SP == " "
\* the backquote character (written as a word: SANY reads a backquote inside a
\* string as the start of a quotation)
BT == "BACKQUOTE"

\* str.strip() and the regex class \s on the texts of the model
Whitespace == {SP, NL, CR, TAB}

\* str.lower() on one character (the texts of the model hold the capitals J S O N)
Lower(c) ==
  CASE c = "J" -> "j"
    [] c = "S" -> "s"
    [] c = "O" -> "o"
    [] c = "N" -> "n"
    [] OTHER -> c

\* s[i:] for a 1-based index i
From(s, i) == SubSeq(s, i, Len(s))

\* s.startswith(p, i-1), with case folded when fold is TRUE
StartsAt(s, i, p, fold) ==
  /\ i + Len(p) - 1 <= Len(s)
  /\ \A k \in 1..Len(p) :
       IF fold THEN Lower(s[i + k - 1]) = p[k] ELSE s[i + k - 1] = p[k]

RECURSIVE LStripSet(_, _)
\* str.lstrip(chars)
LStripSet(s, cs) ==
  IF s # <<>> /\ Head(s) \in cs THEN LStripSet(Tail(s), cs) ELSE s

RECURSIVE RStripSet(_, _)
\* str.rstrip(chars)
RStripSet(s, cs) ==
  IF s # <<>> /\ s[Len(s)] \in cs
  THEN RStripSet(SubSeq(s, 1, Len(s) - 1), cs)
  ELSE s

\* str.strip()
Strip(s) == RStripSet(LStripSet(s, Whitespace), Whitespace)

Fence == <<BT, BT, BT>>
JsonWord == <<"j", "s", "o", "n">>

RECURSIVE SubOpenFence(_, _)
\* re.sub(r"^FENCE(?:json)?", "", raw, flags=re.IGNORECASE | re.MULTILINE),
\* scanning from index i: ^ matches at the start and after every newline
SubOpenFence(s, i) ==
  IF i > Len(s) THEN <<>>
  ELSE IF (i = 1 \/ s[i - 1] = NL) /\ StartsAt(s, i, Fence, FALSE)
       THEN IF StartsAt(s, i + 3, JsonWord, TRUE)
            THEN SubOpenFence(s, i + 7)
            ELSE SubOpenFence(s, i + 3)
       ELSE <<s[i]>> \o SubOpenFence(s, i + 1)

RECURSIVE SubCloseFence(_, _)
\* re.sub(r"FENCE$", "", raw, flags=re.MULTILINE), scanning from index i:
\* $ matches at the end and before every newline
SubCloseFence(s, i) ==
  IF i > Len(s) THEN <<>>
  ELSE IF StartsAt(s, i, Fence, FALSE) /\ (i + 3 > Len(s) \/ s[i + 3] = NL)
       THEN SubCloseFence(s, i + 3)
       ELSE <<s[i]>> \o SubCloseFence(s, i + 1)

\* if raw.lower().startswith("json"): raw = raw[4:].lstrip("\n\r ")
DropJsonWord(s) ==
  IF StartsAt(s, 1, JsonWord, TRUE)
  THEN LStripSet(From(s, 5), {NL, CR, SP})
  ELSE s

RECURSIVE UnescapeQuotes(_, _)
\* raw.replace('\\"', '"'), scanning from index i
UnescapeQuotes(s, i) ==
  IF i > Len(s) THEN <<>>
  ELSE IF StartsAt(s, i, <<BS, QT>>, FALSE)
       THEN <<QT>> \o UnescapeQuotes(s, i + 2)
       ELSE <<s[i]>> \o UnescapeQuotes(s, i + 1)

RECURSIVE SkipSpace(_, _)
\* the index of the first character at or after i that is not whitespace
SkipSpace(s, i) ==
  IF i <= Len(s) /\ s[i] \in Whitespace THEN SkipSpace(s, i + 1) ELSE i

RECURSIVE SubTrailingComma(_, _)
\* re.sub(r",\s*([\]}])", r"\1", raw), scanning from index i
SubTrailingComma(s, i) ==
  IF i > Len(s) THEN <<>>
  ELSE LET j == SkipSpace(s, i + 1)
       IN IF s[i] = "," /\ j <= Len(s) /\ s[j] \in {"]", "}"}
          THEN <<s[j]>> \o SubTrailingComma(s, j + 1)
          ELSE <<s[i]>> \o SubTrailingComma(s, i + 1)

\* clean_json_text returning the text as the last substitution leaves it
clean_json_text_unstripped(raw) ==
  IF raw = <<>> THEN raw
  ELSE SubTrailingComma(
         UnescapeQuotes(DropJsonWord(SubCloseFence(Strip(SubOpenFence(Strip(raw), 1)), 1)), 1),
         1)

\* clean_json_text(raw)
clean_json_text(raw) ==
  IF raw = <<>> THEN raw
  ELSE LET r1 == Strip(raw)
           r2 == SubOpenFence(r1, 1)
           r3 == SubCloseFence(Strip(r2), 1)
           r4 == DropJsonWord(r3)
           r5 == UnescapeQuotes(r4, 1)
           r6 == SubTrailingComma(r5, 1)
       IN Strip(r6)

\* ------------------------------------------------------------------------
\* json.loads: parsed values and the decoder
\* ------------------------------------------------------------------------
\* Python values: [t |-> tag, v |-> payload].  An object's payload is a
\* function from its keys (texts) to values, an array's a sequence of values.
None == [t |-> "null", v |-> 0]
JBool(b) == [t |-> "bool", v |-> b]
JNum(n) == [t |-> "num", v |-> n]
JStr(s) == [t |-> "str", v |-> s]
JArr(a) == [t |-> "arr", v |-> a]
JObj(f) == [t |-> "obj", v |-> f]

\* the result of a scan: ok, the value read, the index after it
Scanned(val, pos) == [ok |-> TRUE, val |-> val, pos |-> pos]
ScanError == [ok |-> FALSE, val |-> None, pos |-> 0]

Digits == {"0", "1", "2", "3", "4", "5", "6", "7", "8", "9"}

DigitVal(c) ==
  CASE c = "0" -> 0 [] c = "1" -> 1 [] c = "2" -> 2 [] c = "3" -> 3
    [] c = "4" -> 4 [] c = "5" -> 5 [] c = "6" -> 6 [] c = "7" -> 7
    [] c = "8" -> 8 [] c = "9" -> 9

\* json.decoder.BACKSLASH: the character an escape stands for; "" marks an
\* invalid escape.  (\uXXXX is not among the texts of the model.)
Unescape(c) ==
  CASE c = QT -> QT
    [] c = BS -> BS
    [] c = "/" -> "/"
    [] c = "b" -> "BACKSPACE"
    [] c = "f" -> "FORMFEED"
    [] c = "n" -> NL
    [] c = "r" -> CR
    [] c = "t" -> TAB
    [] OTHER -> ""

RECURSIVE ScanString(_, _, _)
\* json.decoder.scanstring(s, i-1, strict=True): i is the index after the
\* opening quote, acc the characters read so far
ScanString(s, i, acc) ==
  IF i > Len(s) THEN ScanError
  ELSE IF s[i] = QT THEN Scanned(JStr(acc), i + 1)
  ELSE IF s[i] = BS
       THEN IF i + 1 > Len(s) \/ Unescape(s[i + 1]) = ""
            THEN ScanError
            ELSE ScanString(s, i + 2, Append(acc, Unescape(s[i + 1])))
  ELSE IF s[i] \in {NL, CR, TAB} THEN ScanError
  ELSE ScanString(s, i + 1, Append(acc, s[i]))

RECURSIVE ScanDigits(_, _, _)
\* the digits of [1-9]\d* from index i, n the number read so far
ScanDigits(s, i, n) ==
  IF i <= Len(s) /\ s[i] \in Digits
  THEN ScanDigits(s, i + 1, 10 * n + DigitVal(s[i]))
  ELSE Scanned(JNum(n), i)

\* json.scanner NUMBER_RE on the unsigned integers: 0 | [1-9]\d*
ScanNumber(s, i) ==
  IF s[i] = "0" THEN Scanned(JNum(0), i + 1) ELSE ScanDigits(s, i, 0)

RECURSIVE ScanOnce(_, _)
RECURSIVE ScanMembers(_, _, _)
RECURSIVE ScanElements(_, _, _)

\* json.decoder.JSONObject: i is the index after the opening brace
ScanObject(s, i) ==
  LET j == SkipSpace(s, i)
  IN IF j <= Len(s) /\ s[j] = "}" THEN Scanned(JObj(<<>>), j + 1)
     ELSE ScanMembers(s, j, <<>>)

\* the loop of JSONObject after the value val of the key name: a closing brace
\* ends the object, a comma leads to the next key; a repeated key keeps the
\* last value
MemberEnd(s, name, val, acc) ==
  LET m == SkipSpace(s, val.pos)
  IN IF ~val.ok \/ m > Len(s) THEN ScanError
     ELSE IF s[m] = "}" THEN Scanned(JObj((name :> val.val) @@ acc), m + 1)
     ELSE IF s[m] = ","
          THEN ScanMembers(s, SkipSpace(s, m + 1), (name :> val.val) @@ acc)
     ELSE ScanError

\* the loop of JSONObject after the key: the colon, then the value
MemberValue(s, key, acc) ==
  LET k == SkipSpace(s, key.pos)
  IN IF ~key.ok \/ k > Len(s) \/ s[k] # ":" THEN ScanError
     ELSE MemberEnd(s, key.val.v, ScanOnce(s, SkipSpace(s, k + 1)), acc)

\* the loop of JSONObject: a key must start at index j
ScanMembers(s, j, acc) ==
  IF j > Len(s) \/ s[j] # QT THEN ScanError
  ELSE MemberValue(s, ScanString(s, j + 1, <<>>), acc)

\* json.decoder.JSONArray: i is the index after the opening bracket
ScanArray(s, i) ==
  LET j == SkipSpace(s, i)
  IN IF j <= Len(s) /\ s[j] = "]" THEN Scanned(JArr(<<>>), j + 1)
     ELSE ScanElements(s, j, <<>>)

\* the loop of JSONArray after the value val: a closing bracket ends the
\* array, a comma leads to the next value
ElementEnd(s, val, acc) ==
  LET m == SkipSpace(s, val.pos)
  IN IF ~val.ok \/ m > Len(s) THEN ScanError
     ELSE IF s[m] = "]" THEN Scanned(JArr(Append(acc, val.val)), m + 1)
     ELSE IF s[m] = ","
          THEN ScanElements(s, SkipSpace(s, m + 1), Append(acc, val.val))
     ELSE ScanError

\* the loop of JSONArray: a value must start at index j
ScanElements(s, j, acc) == ElementEnd(s, ScanOnce(s, j), acc)

\* json.scanner.py_make_scanner._scan_once at index i
ScanOnce(s, i) ==
  IF i > Len(s) THEN ScanError
  ELSE IF s[i] = QT THEN ScanString(s, i + 1, <<>>)
  ELSE IF s[i] = "{" THEN ScanObject(s, i + 1)
  ELSE IF s[i] = "[" THEN ScanArray(s, i + 1)
  ELSE IF StartsAt(s, i, <<"n", "u", "l", "l">>, FALSE) THEN Scanned(None, i + 4)
  ELSE IF StartsAt(s, i, <<"t", "r", "u", "e">>, FALSE) THEN Scanned(JBool(TRUE), i + 4)
  ELSE IF StartsAt(s, i, <<"f", "a", "l", "s", "e">>, FALSE)
       THEN Scanned(JBool(FALSE), i + 5)
  ELSE IF s[i] \in Digits THEN ScanNumber(s, i)
  ELSE ScanError

\* JSONDecoder.decode after raw_decode gave r: only whitespace may follow
Decoded(s, r) ==
  IF r.ok /\ SkipSpace(s, r.pos) = Len(s) + 1
  THEN [ok |-> TRUE, val |-> r.val]
  ELSE [ok |-> FALSE, val |-> None]

\* json.loads(s); ok is FALSE where it raises json.JSONDecodeError
json_loads(s) == Decoded(s, ScanOnce(s, SkipSpace(s, 1)))

\* the result of parse_gemini_json: err names the exception raised, "" when
\* the value val is returned
Returned(r) ==
  IF r.ok THEN [err |-> "", val |-> r.val] ELSE [err |-> "JSONDecodeError", val |-> None]

\* parse_gemini_json after the direct parse gave direct: return it, or clean
\* the text and parse once more
ParseOrClean(raw, direct) ==
  IF direct.ok THEN Returned(direct) ELSE Returned(json_loads(clean_json_text(raw)))

\* parse_gemini_json after raw_text.strip()
ParseStripped(raw) ==
  IF raw = <<>> THEN [err |-> "ValueError", val |-> None]
  ELSE ParseOrClean(raw, json_loads(raw))

\* parse_gemini_json(raw_text)
parse_gemini_json(raw_text) == ParseStripped(Strip(raw_text))

\* ------------------------------------------------------------------------
\* Python values in the wizard
\* ------------------------------------------------------------------------
\* bool(v): the truth value the tests "if not st.session_state.x" read
Truthy(v) ==
  CASE v.t = "null" -> FALSE
    [] v.t = "bool" -> v.v
    [] v.t = "num" -> v.v # 0
    [] v.t = "obj" -> DOMAIN v.v # {}
    [] OTHER -> v.v # <<>>

\* d.get(k, default) on a dict d
DictGet(d, k, default) == IF k \in DOMAIN d.v THEN d.v[k] ELSE default

KeyQuestions == <<"q", "u", "e", "s", "t", "i", "o", "n", "s">>
KeyQuestion == <<"q", "u", "e", "s", "t", "i", "o", "n">>
KeyId == <<"i", "d">>
KeyOptions == <<"o", "p", "t", "i", "o", "n", "s">>

RECURSIVE NatText(_)
\* str(n) for a natural number
NatText(n) ==
  LET d == <<"0", "1", "2", "3", "4", "5", "6", "7", "8", "9">>[(n % 10) + 1]
  IN IF n < 10 THEN <<d>> ELSE Append(NatText(n \div 10), d)

\* the text an f-string puts for {v}; the ids of the model are numbers, texts,
\* booleans or null
PyStr(v) ==
  CASE v.t = "num" -> NatText(v.v)
    [] v.t = "str" -> v.v
    [] v.t = "bool" -> IF v.v THEN <<"T", "r", "u", "e">> ELSE <<"F", "a", "l", "s", "e">>
    [] OTHER -> <<"N", "o", "n", "e">>

Range(f) == {f[i] : i \in DOMAIN f}

\* ------------------------------------------------------------------------
\* Session state
\* ------------------------------------------------------------------------
Phases == <<"collect", "planning", "designing", "finalize", "generate">>

\* init_state(): the defaults
Defaults ==
  [phase |-> "collect",
   user_text |-> "",
   line_range |-> "",
   uploaded_files |-> <<>>,
   planning_response |-> None,
   planning_answers |-> <<>>,
   design_response |-> None,
   design_answers |-> <<>>,
   generated_code |-> None,
   project_files |-> <<>>]

\* files_dict[name] = content on a dict kept as its items in insertion order
DictSet(files, name, content) ==
  IF \E i \in 1..Len(files) : files[i].name = name
  THEN [i \in 1..Len(files) |->
          IF files[i].name = name THEN [name |-> name, content |-> content]
          ELSE files[i]]
  ELSE Append(files, [name |-> name, content |-> content])

RECURSIVE AddUploads(_, _, _)
\* for f in st.session_state.uploaded_files: files[f["name"]] = f["bytes"]
AddUploads(files, ups, i) ==
  IF i > Len(ups) THEN files
  ELSE AddUploads(DictSet(files, ups[i].name, [t |-> "bytes", v |-> ups[i].bytes]),
                  ups, i + 1)

\* the README.md text of each app
Readme(a) == IF a = "recog4" THEN "readme of recog4" ELSE "readme of recog5"

\* the dict built after code generation
ProjectFiles(a, code, ups) ==
  AddUploads(<<[name |-> "generated_app.py", content |-> [t |-> "str", v |-> code]],
               [name |-> "README.md", content |-> [t |-> "str", v |-> Readme(a)]]>>,
             ups, 1)

\* a zip_project that writes the bytes and leaves out the text
zip_projectBytesOnly(files) ==
  LET written == SelectSeq(files, LAMBDA f : f.content.t = "bytes")
  IN [i \in 1..Len(written) |-> [name |-> written[i].name, data |-> written[i].content]]

\* zip_project(files_dict): the entries written to generated_project.zip
zip_project(files) ==
  [i \in 1..Len(files) |-> [name |-> files[i].name, data |-> files[i].content]]

\* [{"name": f.name, "type": f.type, "bytes": f.read()} for f in uploaded]
ReadUploads(uploaded) ==
  [i \in 1..Len(uploaded) |->
     [name |-> uploaded[i].name, type |-> uploaded[i].type, bytes |-> uploaded[i].bytes]]

\* ------------------------------------------------------------------------
\* One run of the script: what it leaves behind
\* ------------------------------------------------------------------------
\* ss: the session after the run; msg, detail, raw, buttons: what the run put
\* on the page; rerun: the run ended in st.rerun(); handler: the phase whose
\* handler ran ("" when none did); req: the handler called the gateway;
\* zip: the entries of the archive behind the zip download button
Outcome(s, msg, detail, raw, buttons, rerun, handler, req) ==
  [ss |-> s, msg |-> msg, detail |-> detail, raw |-> raw, buttons |-> buttons,
   rerun |-> rerun, handler |-> handler, req |-> req, zip |-> <<>>]

\* the widget value of one question: st.radio (recog4) gives the option chosen
\* before if it is still offered, else the first option, None without options;
\* st.multiselect (recog5) gives the list chosen before, else []
QuestionWidget(a, answers, key, options) ==
  IF a = "recog4"
  THEN IF key \in DOMAIN answers /\ answers[key] \in Range(options) THEN answers[key]
       ELSE IF options = <<>> THEN None ELSE options[1]
  ELSE IF key \in DOMAIN answers THEN answers[key] ELSE JArr(<<>>)

\* q.get("options", []) (the questions of the model carry a list or nothing)
Options(q) ==
  LET o == DictGet(q, KeyOptions, JArr(<<>>)) IN IF o.t = "arr" THEN o.v ELSE <<>>

RECURSIVE AskQuestions(_, _, _, _, _, _)
\* the loop "for q in data.get('questions', [])" from question i on: answers is
\* the answers dict so far, seen the widget keys made so far in this run.
\* ok is FALSE where the loop raises (q is no dict, q['id'] or q['question'] is
\* missing, or the key repeats one of this run)
AskQuestions(a, prefix, qs, i, answers, seen) ==
  IF i > Len(qs) THEN [ok |-> TRUE, answers |-> answers]
  ELSE LET q == qs[i]
           key == <<prefix>> \o PyStr(q.v[KeyId])
       IN IF q.t # "obj" THEN [ok |-> FALSE, answers |-> answers]
          ELSE IF KeyId \notin DOMAIN q.v \/ KeyQuestion \notin DOMAIN q.v
               THEN [ok |-> FALSE, answers |-> answers]
          ELSE IF key \in seen THEN [ok |-> FALSE, answers |-> answers]
          ELSE AskQuestions(a, prefix, qs, i + 1,
                 (key :> QuestionWidget(a, answers, key, Options(q))) @@ answers,
                 seen \cup {key})

\* what "for q in data.get('questions', [])" iterates over: the elements of a
\* list, the characters of a text, the keys of a dict; ok is FALSE where the
\* value is not iterable
QuestionList(data) ==
  LET qv == DictGet(data, KeyQuestions, JArr(<<>>))
  IN CASE qv.t = "arr" -> [ok |-> TRUE, qs |-> qv.v]
       [] qv.t = "str" -> [ok |-> TRUE, qs |-> [i \in 1..Len(qv.v) |-> JStr(<<qv.v[i]>>)]]
       [] qv.t = "obj" ->
            [ok |-> TRUE,
             qs |-> IF DOMAIN qv.v = {} THEN <<>>
                    ELSE <<JStr(CHOOSE k \in DOMAIN qv.v : TRUE)>>]
       [] OTHER -> [ok |-> FALSE, qs |-> <<>>]

\* the text area for notes after the questions loop gave asked
RenderNote(addKey, asked) ==
  IF ~asked.ok THEN asked
  ELSE [ok |-> TRUE,
        answers |-> (<<addKey>> :> (IF <<addKey>> \in DOMAIN asked.answers
                                    THEN asked.answers[<<addKey>>] ELSE JStr(<<>>)))
                      @@ asked.answers]

\* the questions loop over ql, then the notes
RenderQuestions(a, answers, prefix, addKey, ql) ==
  IF ~ql.ok THEN [ok |-> FALSE, answers |-> answers]
  ELSE RenderNote(addKey, AskQuestions(a, prefix, ql.qs, 1, answers, {}))

\* the else branch of a phase with a cached response: data.get(...), the
\* questions loop, the text area for notes.  ok is FALSE where it raises.
\* RenderResponse that shows no question for a response that is no object
RenderResponseAnyValue(a, data, answers, prefix, addKey) ==
  IF data.t # "obj" THEN [ok |-> TRUE, answers |-> answers]
  ELSE RenderQuestions(a, answers, prefix, addKey, QuestionList(data))

RenderResponse(a, data, answers, prefix, addKey) ==
  IF data.t # "obj" THEN [ok |-> FALSE, answers |-> answers]
  ELSE RenderQuestions(a, answers, prefix, addKey, QuestionList(data))

\* ------------------------------------------------------------------------
\* The inputs of the model
\* ------------------------------------------------------------------------
\* the number of gateway requests one chain of runs (a user interaction and the
\* reruns it starts) may make before the model stops following it
MaxChain == 3

Quoted(s) == <<QT>> \o s \o <<QT>>

\* {"questions":[{"id":1,"question":"q","options":["A","B"]}]}, and the same
\* with a comma before the last brace when comma is TRUE
PlanText(comma) ==
  <<"{">> \o Quoted(KeyQuestions) \o <<":", "[", "{">> \o Quoted(KeyId) \o <<":", "1", ",">>
    \o Quoted(KeyQuestion) \o <<":">> \o Quoted(<<"q">>) \o <<",">>
    \o Quoted(KeyOptions) \o <<":", "[">> \o Quoted(<<"A">>) \o <<",">> \o Quoted(<<"B">>)
    \o <<"]", "}", "]">> \o (IF comma THEN <<",">> ELSE <<>>) \o <<"}">>
TxtPlan == PlanText(FALSE)
\* the plan with a trailing comma, inside a fence tagged json
TxtFenced == Fence \o JsonWord \o <<NL>> \o PlanText(TRUE) \o <<NL>> \o Fence
\* {}
TxtEmptyObject == <<"{", "}">>
\* [1]
TxtArray == <<"[", "1", "]">>
\* {"questions":[{"question":"q"}]}
TxtNoId ==
  <<"{">> \o Quoted(KeyQuestions) \o <<":", "[", "{">> \o Quoted(KeyQuestion) \o <<":">>
    \o Quoted(<<"q">>) \o <<"}", "]", "}">>
\* {"a":
TxtBroken == <<SP, "{">> \o Quoted(<<"a">>) \o <<":">>
TxtNull == <<"n", "u", "l", "l">>
TxtEmpty == <<>>
TxtBlank == <<SP, NL>>
\* some source text
TxtCode == <<"x", "=", "1", NL>>

JsonTexts ==
  {TxtPlan, TxtFenced, TxtEmptyObject, TxtArray, TxtNoId, TxtBroken, TxtNull, TxtBlank}
CodeTexts == {TxtCode, TxtEmpty}

\* parse_gemini_json on the texts of the gateway, computed once
ParseTable == [t \in {Strip(x) : x \in JsonTexts} |-> parse_gemini_json(t)]

\* parse_gemini_json(raw), looked up in table where raw is a text of the gateway
Lookup(table, raw) == IF raw \in DOMAIN table THEN table[raw] ELSE parse_gemini_json(raw)
Parsed(raw) == Lookup(ParseTable, raw)

\* what the gateway may answer to a request of the phase
Replies(phase) ==
  {[raises |-> TRUE, text |-> <<>>]}
    \cup {[raises |-> FALSE, text |-> t] :
            t \in IF phase = "generate" THEN CodeTexts ELSE JsonTexts}

Descriptions == {"", "an idea"}
LineRanges == {"", "80-120"}
Notes == {<<>>, <<"n">>}
Files ==
  {[name |-> "notes.txt", type |-> "text/plain", bytes |-> "bytes of notes.txt"],
   [name |-> "README.md", type |-> "text/markdown", bytes |-> "bytes of README.md"]}
\* what the uploader may hold
Uploads == {<<>>} \cup {<<f>> : f \in Files}

\* ------------------------------------------------------------------------
\* The phase handlers
\* ------------------------------------------------------------------------
\* a gateway reply: raises is TRUE where client.models.generate_content(...)
\* raises or resp.text is None (so that .strip() raises); text is resp.text
NoReply == [raises |-> FALSE, text |-> <<>>]

\* planning / designing after parse_gemini_json gave parsed for the text raw:
\* cache and rerun, or show the failure (recog4: with the raw text and the
\* retry button retry, which clears the cache and reruns when clicked)
HandleParsed(a, s, phase, field, retry, btn, raw, parsed) ==
  IF parsed.err = ""
  THEN Outcome([s EXCEPT ![field] = parsed.val], "", "", <<>>, {}, TRUE, phase, TRUE)
  ELSE IF a = "recog4"
  THEN IF btn = retry
       THEN Outcome([s EXCEPT ![field] = None], "invalid_json", "", raw, {retry},
                    TRUE, phase, TRUE)
       ELSE Outcome(s, "invalid_json", "", raw, {retry}, FALSE, phase, TRUE)
  ELSE Outcome(s, "invalid_json_or_error", parsed.err, <<>>, {}, FALSE, phase, TRUE)

\* planning / designing after the gateway gave the stripped text raw: recog4
\* stops on an empty text, then parse_gemini_json
HandleText(a, s, phase, field, retry, btn, raw) ==
  IF a = "recog4" /\ raw = <<>>
  THEN Outcome(s, "empty_response", "", <<>>, {}, FALSE, phase, TRUE)
  ELSE HandleParsed(a, s, phase, field, retry, btn, raw, Parsed(raw))

\* planning / designing without a cached response: one gateway request.
\* field is the session key of the response, retry the retry button of
\* recog4, btn the button clicked for this run
RequestResponse(a, s, phase, field, retry, btn, gw) ==
  IF gw.raises
  THEN Outcome(s, IF a = "recog4" THEN "gateway_error" ELSE "invalid_json_or_error",
               "", <<>>, {}, FALSE, phase, TRUE)
  ELSE HandleText(a, s, phase, field, retry, btn, Strip(gw.text))

\* planning / designing after the cached response was rendered with result r:
\* the confirm button moves to the phase next
Rendered(s, phase, answers, confirm, next, btn, r) ==
  IF ~r.ok
  THEN Outcome([s EXCEPT ![answers] = r.answers], "uncaught_exception", "", <<>>, {},
               FALSE, phase, FALSE)
  ELSE IF btn = confirm
  THEN Outcome([s EXCEPT ![answers] = r.answers, !.phase = next], "", "", <<>>,
               {confirm}, TRUE, phase, FALSE)
  ELSE Outcome([s EXCEPT ![answers] = r.answers], "", "", <<>>, {confirm}, FALSE,
               phase, FALSE)

\* planning / designing with a cached response
ShowResponse(a, s, phase, field, answers, prefix, addKey, confirm, next, btn) ==
  Rendered(s, phase, answers, confirm, next, btn,
           RenderResponse(a, s[field], s[answers], prefix, addKey))

\* if st.session_state.phase == "planning": ...
\* PlanningPhase with the confirm button leading to finalize
PlanningPhaseSkipsDesign(a, s, btn, gw) ==
  IF ~Truthy(s.planning_response)
  THEN RequestResponse(a, s, "planning", "planning_response", "RetryPlanning", btn, gw)
  ELSE ShowResponse(a, s, "planning", "planning_response", "planning_answers",
                    "plan_q_", "plan_additional", "ConfirmPlanning", "finalize", btn)

PlanningPhase(a, s, btn, gw) ==
  IF ~Truthy(s.planning_response)
  THEN RequestResponse(a, s, "planning", "planning_response", "RetryPlanning", btn, gw)
  ELSE ShowResponse(a, s, "planning", "planning_response", "planning_answers",
                    "plan_q_", "plan_additional", "ConfirmPlanning", "designing", btn)

\* elif st.session_state.phase == "designing": ... (the prompt reads
\* planning_response.get before the try block)
DesigningPhase(a, s, btn, gw) ==
  IF ~Truthy(s.design_response)
  THEN IF s.planning_response.t # "obj"
       THEN Outcome(s, "uncaught_exception", "", <<>>, {}, FALSE, "designing", FALSE)
       ELSE RequestResponse(a, s, "designing", "design_response", "RetryDesign", btn, gw)
  ELSE ShowResponse(a, s, "designing", "design_response", "design_answers",
                    "design_q_", "design_additional", "ConfirmDesign", "finalize", btn)

\* elif st.session_state.phase == "finalize": ...
FinalizePhase(a, s, btn) ==
  IF s.planning_response.t # "obj" \/ s.design_response.t # "obj"
  THEN Outcome(s, "uncaught_exception", "", <<>>, {}, FALSE, "finalize", FALSE)
  ELSE IF btn = "Generate"
  THEN Outcome([s EXCEPT !.phase = "generate"], "", "", <<>>, {"Generate"}, TRUE,
               "finalize", FALSE)
  ELSE Outcome(s, "", "", <<>>, {"Generate"}, FALSE, "finalize", FALSE)

\* generate without generated code: one gateway request; recog4 stops on an
\* empty text, recog5 stores whatever text came
RequestCode(a, s, gw) ==
  LET code == Strip(gw.text)
  IN IF gw.raises
     THEN Outcome(s, "gateway_error", "", <<>>, {}, FALSE, "generate", TRUE)
     ELSE IF a = "recog4" /\ code = <<>>
     THEN Outcome(s, "empty_response", "", <<>>, {}, FALSE, "generate", TRUE)
     ELSE Outcome([s EXCEPT !.generated_code = JStr(code),
                            !.project_files = ProjectFiles(a, code, s.uploaded_files)],
                  "", "", <<>>, {}, TRUE, "generate", TRUE)

\* generate with generated code: the downloads, zip_project, Start New Project
ShowCode(s, btn) ==
  [Outcome(IF btn = "StartNew" THEN Defaults ELSE s, "success", "", <<>>,
           {"DownloadCode", "DownloadZip", "StartNew"}, btn = "StartNew", "generate",
           FALSE)
     EXCEPT !.zip = zip_project(s.project_files)]

\* elif st.session_state.phase == "generate": ...
GeneratePhase(a, s, btn, gw) ==
  IF ~Truthy(s.generated_code) THEN RequestCode(a, s, gw) ELSE ShowCode(s, btn)

\* the right column
PhaseHandler(a, s, btn, gw) ==
  CASE s.phase = "planning" -> PlanningPhase(a, s, btn, gw)
    [] s.phase = "designing" -> DesigningPhase(a, s, btn, gw)
    [] s.phase = "finalize" -> FinalizePhase(a, s, btn)
    [] s.phase = "generate" -> GeneratePhase(a, s, btn, gw)
    [] OTHER -> Outcome(s, "", "", <<>>, {}, FALSE, "", FALSE)

\* the button drawn below the right column, where a run that stopped on a
\* message never gets
ButtonAfterHandler(out, b) ==
  IF out.msg = "" THEN [out EXCEPT !.buttons = @ \cup {b}] ELSE out

\* the run went on to the right column: the button of the left column is on
\* the page too
WithButton(out, b) == [out EXCEPT !.buttons = @ \cup {b}]

\* LeftButton with a Reset Project that only sets the phase back to collect
LeftButtonKeepsResults(a, s, btn, gw) ==
  IF s.phase = "collect" /\ btn = "Start"
  THEN Outcome([s EXCEPT !.phase = "planning"], "", "", <<>>, {"Start"}, TRUE, "", FALSE)
  ELSE IF s.phase # "collect" /\ btn = "Reset"
  THEN Outcome([s EXCEPT !.phase = "collect"], "", "", <<>>, {"Reset"}, TRUE, "", FALSE)
  ELSE WithButton(PhaseHandler(a, s, btn, gw),
                  IF s.phase = "collect" THEN "Start" ELSE "Reset")

\* the button of the left column: Start Planning Phase in collect (sets the
\* phase and reruns), Reset Project elsewhere (deletes every key, init_state(),
\* reruns); otherwise the right column runs
LeftButton(a, s, btn, gw) ==
  IF s.phase = "collect" /\ btn = "Start"
  THEN Outcome([s EXCEPT !.phase = "planning"], "", "", <<>>, {"Start"}, TRUE, "", FALSE)
  ELSE IF s.phase # "collect" /\ btn = "Reset"
  THEN Outcome(Defaults, "", "", <<>>, {"Reset"}, TRUE, "", FALSE)
  ELSE WithButton(PhaseHandler(a, s, btn, gw),
                  IF s.phase = "collect" THEN "Start" ELSE "Reset")

\* Script storing what the uploader holds also when it holds nothing
ScriptStoresEmptyUpload(a, s, key, uploaded, btn, gw) ==
  IF ~key
  THEN Outcome(s, "api_key_warning", "", <<>>, {}, FALSE, "", FALSE)
  ELSE LeftButton(a, [s EXCEPT !.uploaded_files = ReadUploads(uploaded)], btn, gw)

\* Script without the check of the API key
ScriptNoKeyCheck(a, s, key, uploaded, btn, gw) ==
  LeftButton(a,
    [s EXCEPT !.uploaded_files = IF uploaded # <<>> THEN ReadUploads(uploaded) ELSE @],
    btn, gw)

\* one run of the script.  s is the session with the text inputs of the left
\* column already stored, key the API key box (TRUE when filled), uploaded the
\* files the uploader holds, btn the button clicked, gw the gateway's reply
Script(a, s, key, uploaded, btn, gw) ==
  IF ~key
  THEN Outcome(s, "api_key_warning", "", <<>>, {}, FALSE, "", FALSE)
  ELSE LeftButton(a,
         [s EXCEPT !.uploaded_files = IF uploaded # <<>> THEN ReadUploads(uploaded) ELSE @],
         btn, gw)

\* ------------------------------------------------------------------------
\* State
\* ------------------------------------------------------------------------
VARIABLES
  app,       \* which script runs: "recog4" or "recog5"
  api_key,   \* the API key box of the sidebar is filled
  uploader,  \* the files the file uploader holds
  ss,        \* st.session_state
  screen,    \* what the last run put on the page (zip: the archive offered)
  pc,        \* "rerun" while a run started by st.rerun() is due, else "idle"
  run,       \* the last run: its handler, its gateway request and reply
  chain,     \* the phases of the gateway requests since the last user action
  last,      \* the last user action: the button clicked, "input" for any other
  given,     \* the text handed to parse_gemini_json on its own, and its make
  norm,      \* parse_gemini_json at work on it: stage, texts, result
  disk,      \* generated_project.zip in the working directory of the server
  sessions,  \* the sessions of one server in their generate phase
  rec,       \* a recognizer (recog.py or recog3.py): the widgets of its page
  shown,     \* what the last run of the recognizer did
  tool,      \* the image tool (img.py): the widgets of its sidebar
  processed  \* processed_img of the last run of the image tool

wizardVars == <<app, api_key, uploader, ss, screen, pc, run, chain, last>>
normVars == <<given, norm>>
packVars == <<disk, sessions>>
recVars == <<rec, shown>>
toolVars == <<tool, processed>>
otherVars == <<packVars, recVars, toolVars>>
vars ==
  <<app, api_key, uploader, ss, screen, pc, run, chain, last, given, norm, disk, sessions,
    rec, shown, tool, processed>>

\* the session keys of the two phases that ask for a JSON response
PhaseKeys(phase) ==
  IF phase = "planning"
  THEN [field |-> "planning_response", answers |-> "planning_answers",
        prefix |-> "plan_q_", addKey |-> "plan_additional", confirm |-> "ConfirmPlanning"]
  ELSE [field |-> "design_response", answers |-> "design_answers",
        prefix |-> "design_q_", addKey |-> "design_additional", confirm |-> "ConfirmDesign"]

\* the session key that caches the gateway output of a phase
CacheKey(phase) ==
  CASE phase = "planning" -> "planning_response"
    [] phase = "designing" -> "design_response"
    [] OTHER -> "generated_code"

\* an image: the file it was loaded from, its PIL mode, and the operations
\* applied to it since, each with its arguments
Picture(src, pil_mode) == [src |-> src, pil_mode |-> pil_mode, ops |-> <<>>]
\* uploaded_file is None; no image processed
NoImage == Picture("", "")

\* the widgets of the image tool with nothing touched: the uploader holding
\* file, the first category, every slider at its default (factors in tenths)
Widgets(file) ==
  [uploaded_file |-> file, mode |-> "Basic Adjustments",
   brightness |-> 10, contrast |-> 10, sharpness |-> 10, color |-> 10,
   effect |-> "Original", blur_rate |-> 15,
   angle |-> 0, flip |-> "None",
   algo |-> "Canny Edge", t1 |-> 100, t2 |-> 200, thresh_val |-> 127]

\* a byte string: kind tells what it encodes, pages the images it holds
Bytes(kind, pages) == [kind |-> kind, pages |-> pages]
\* image_bytes = None
NoBytes == Bytes("none", <<>>)
\* uploaded_file is None
NoFile == [type |-> "", bytes |-> NoBytes]

\* no recognizer at work
NoPage == [prog |-> "", api_key |-> FALSE, uploaded_file |-> NoFile, url_input |-> "",
           prompt |-> ""]
NoRun == [msgs |-> {}, sent |-> FALSE, contents |-> <<>>, clicked |-> FALSE]

\* parse_gemini_json not called on its own
NoText == [shape |-> "", doc |-> <<>>, text |-> <<>>]
NotStarted ==
  [stage |-> "", text |-> <<>>, cleaned |-> <<>>, result |-> [err |-> "", val |-> None],
   carried |-> <<>>]

\* the parts of the state that belong to the programs other than those named
Idle(busy) ==
  /\ IF "wizard" \in busy THEN TRUE
     ELSE /\ app = "recog4"
          /\ api_key = FALSE
          /\ uploader = <<>>
          /\ ss = Defaults
          /\ screen = [msg |-> "api_key_warning", detail |-> "", raw |-> <<>>,
                       buttons |-> {}, zip |-> <<>>]
          /\ pc = "idle"
          /\ run = [handler |-> "", req |-> FALSE, cached |-> FALSE, reply |-> NoReply]
          /\ chain = <<>>
          /\ last = ""
  /\ IF "normalizer" \in busy THEN TRUE ELSE given = NoText /\ norm = NotStarted
  /\ IF "packager" \in busy THEN TRUE ELSE disk = <<>> /\ sessions = <<>>
  /\ IF "recognizer" \in busy THEN TRUE ELSE rec = NoPage /\ shown = NoRun
  /\ IF "image tool" \in busy THEN TRUE ELSE tool = Widgets(NoImage) /\ processed = NoImage

Init ==
  /\ Idle({"wizard"})
  /\ app \in {"recog4", "recog5"}
  /\ api_key = FALSE
  /\ uploader = <<>>
  /\ ss = Defaults
  /\ screen = [msg |-> "api_key_warning", detail |-> "", raw |-> <<>>, buttons |-> {},
               zip |-> <<>>]
  /\ pc = "idle"
  /\ run = [handler |-> "", req |-> FALSE, cached |-> FALSE, reply |-> NoReply]
  /\ chain = <<>>
  /\ last = ""

\* the state a run leaves: out is what the script did, gw the gateway's reply
Commit(act, s, key, uploaded, gw, out) ==
  LET before == IF act = "" THEN chain ELSE <<>>
  IN /\ out.req => Len(before) < MaxChain
     /\ ss' = out.ss
     /\ api_key' = key
     /\ uploader' = IF key THEN uploaded ELSE <<>>
     /\ screen' = [msg |-> out.msg, detail |-> out.detail, raw |-> out.raw,
                   buttons |-> out.buttons, zip |-> out.zip]
     /\ pc' = IF out.rerun THEN "rerun" ELSE "idle"
     /\ run' = [handler |-> out.handler, req |-> out.req,
                cached |-> out.handler \in {"planning", "designing", "generate"}
                             /\ s[CacheKey(out.handler)] # None,
                reply |-> gw]
     /\ chain' = IF out.req THEN Append(before, out.handler) ELSE before
     /\ last' = IF act = "" THEN last ELSE act
     /\ UNCHANGED <<app, normVars, otherVars>>

\* the replies a run may get: any reply of the phase if the run, probed
\* without one, calls the gateway
RepliesTo(probe) == IF probe.req THEN Replies(probe.handler) ELSE {NoReply}

\* One run of the script, started by the user action act or, for act = "",
\* by st.rerun().  A run that calls the gateway takes any reply.
Run(act, s, key, uploaded, btn) ==
  \E gw \in RepliesTo(Script(app, s, key, uploaded, btn, NoReply)) :
    Commit(act, s, key, uploaded, gw, Script(app, s, key, uploaded, btn, gw))

\* ------------------------------------------------------------------------
\* User actions
\* ------------------------------------------------------------------------
TypeApiKey == pc = "idle" /\ ~api_key /\ Run("input", ss, TRUE, uploader, "")

ClearApiKey == pc = "idle" /\ api_key /\ Run("input", ss, FALSE, uploader, "")

\* st.session_state.user_text = st.text_area(...)
EditDescription ==
  /\ pc = "idle" /\ api_key
  /\ \E t \in Descriptions \ {ss.user_text} :
       Run("input", [ss EXCEPT !.user_text = t], api_key, uploader, "")

\* st.session_state.line_range = st.text_input(...), recog5 only
EditLineRange ==
  /\ pc = "idle" /\ api_key /\ app = "recog5"
  /\ \E t \in LineRanges \ {ss.line_range} :
       Run("input", [ss EXCEPT !.line_range = t], api_key, uploader, "")

\* the user changes the files of the uploader
Upload ==
  /\ pc = "idle" /\ api_key
  /\ \E fs \in Uploads \ {uploader} : Run("input", ss, api_key, fs, "")

Click(b) == pc = "idle" /\ b \in screen.buttons /\ Run(b, ss, api_key, uploader, b)

ClickStart == Click("Start")
ClickReset == Click("Reset")
ClickRetryPlanning == Click("RetryPlanning")
ClickRetryDesign == Click("RetryDesign")
ClickConfirmPlanning == Click("ConfirmPlanning")
ClickConfirmDesign == Click("ConfirmDesign")
ClickGenerate == Click("Generate")
ClickStartNew == Click("StartNew")
\* a download button reruns the script and changes nothing else
ClickDownload == Click("DownloadCode") \/ Click("DownloadZip")

\* the values the user can give the widget of a question with these options
PickValues(a, options) ==
  IF a = "recog4" THEN Range(options)
  ELSE {JArr(<<>>), JArr(options)} \cup {JArr(<<o>>) : o \in Range(options)}

\* <<widget key, value>> for every answer the user can give to the questions
\* of the response data
Picks(a, data, prefix) ==
  UNION {{<<(<<prefix>> \o PyStr(q.v[KeyId])), v>> : v \in PickValues(a, Options(q))} :
           q \in {qq \in Range(QuestionList(data).qs) :
                    qq.t = "obj" /\ KeyId \in DOMAIN qq.v}}

\* the user answers a question shown by the planning or designing phase
ChooseOption ==
  /\ pc = "idle" /\ api_key /\ ss.phase \in {"planning", "designing"}
  /\ LET k == PhaseKeys(ss.phase)
     IN /\ Truthy(ss[k.field]) /\ ss[k.field].t = "obj"
        /\ \E p \in Picks(app, ss[k.field], k.prefix) :
             /\ p[1] \in DOMAIN ss[k.answers]
             /\ ss[k.answers][p[1]] # p[2]
             /\ Run("input", [ss EXCEPT ![k.answers] = (p[1] :> p[2]) @@ @],
                    api_key, uploader, "")

\* the user edits the notes text area of the planning or designing phase
EditNote ==
  /\ pc = "idle" /\ api_key /\ ss.phase \in {"planning", "designing"}
  /\ LET k == PhaseKeys(ss.phase)
     IN /\ k.confirm \in screen.buttons
        /\ \E n \in Notes :
             /\ ss[k.answers][<<k.addKey>>] # JStr(n)
             /\ Run("input", [ss EXCEPT ![k.answers] = (<<k.addKey>> :> JStr(n)) @@ @],
                    api_key, uploader, "")

\* the user reruns the script from the menu
UserRerun == pc = "idle" /\ Run("input", ss, api_key, uploader, "")

\* the run that st.rerun() starts: no button is clicked in it
ScriptRerun == pc = "rerun" /\ Run("", ss, api_key, uploader, "")

Next ==
  \/ TypeApiKey \/ ClearApiKey \/ EditDescription \/ EditLineRange \/ Upload
  \/ ClickStart \/ ClickReset \/ ClickRetryPlanning \/ ClickRetryDesign
  \/ ClickConfirmPlanning \/ ClickConfirmDesign \/ ClickGenerate \/ ClickStartNew
  \/ ClickDownload \/ ChooseOption \/ EditNote \/ UserRerun \/ ScriptRerun

Spec == Init /\ [][Next]_vars

\* ------------------------------------------------------------------------
\* parse_gemini_json on its own, step by step
\* ------------------------------------------------------------------------
\* the number of pieces in the text value of a document
MaxPieces == 2

\* the pieces a text value of a document is made of: a letter, an escaped
\* quote, a comma, brackets and braces, a space
Pieces == {<<"a">>, <<BS, QT>>, <<",">>, <<"]">>, <<"}">>, <<SP>>}

RECURSIVE Bodies(_)
\* the text values of at most n pieces, as they stand between the quotes
Bodies(n) ==
  IF n = 0 THEN {<<>>} ELSE Bodies(n - 1) \cup {b \o q : b \in Bodies(n - 1), q \in Pieces}

\* JSON documents: {"a":"..."}, ["...",1] and "..." for every text value,
\* the document {"a":1}, and one text that is no JSON document: {"a":
Documents ==
  UNION {{<<"{">> \o Quoted(<<"a">>) \o <<":">> \o Quoted(b) \o <<"}">>,
          <<"[">> \o Quoted(b) \o <<",", "1", "]">>,
          Quoted(b)} : b \in Bodies(MaxPieces)}
    \cup {<<"{">> \o Quoted(<<"a">>) \o <<":">>}
    \cup {<<"{">> \o Quoted(<<"a">>) \o <<":", "1", "}">>}

\* the raw text of a make for the document d: the document itself, the
\* document in a fenced code block tagged json, the document with a comma put
\* before its closing brace or bracket, and the last of these in a fenced
\* code block tagged json
RawText(shape, d) ==
  CASE shape = "json_fence" -> Fence \o JsonWord \o <<NL>> \o d \o <<NL>> \o Fence
    [] shape = "trailing_comma" -> SubSeq(d, 1, Len(d) - 1) \o <<",", d[Len(d)]>>
    [] shape = "json_fence_trailing_comma" ->
         Fence \o JsonWord \o <<NL>> \o SubSeq(d, 1, Len(d) - 1) \o <<",", d[Len(d)]>>
           \o <<NL>> \o Fence
    [] OTHER -> d

\* the makes of a document: a comma is put only before a brace or bracket
Shapes(d) ==
  {"plain", "json_fence"}
    \cup (IF d[Len(d)] \in {"}", "]"}
          THEN {"trailing_comma", "json_fence_trailing_comma"}
          ELSE {})

RECURSIVE Blanks(_)
\* the texts of at most n characters, all white space
Blanks(n) ==
  IF n = 0 THEN {<<>>} ELSE Blanks(n - 1) \cup {b \o <<c>> : b \in Blanks(n - 1), c \in Whitespace}

InitNormalizer ==
  /\ \/ \E d \in Documents : \E shape \in Shapes(d) :
          given = [shape |-> shape, doc |-> d, text |-> RawText(shape, d)]
     \/ \E b \in Blanks(MaxPieces) : given = [shape |-> "blank", doc |-> <<>>, text |-> b]
  /\ norm = [NotStarted EXCEPT !.stage = "given"]
  /\ Idle({"wizard", "normalizer"})
  /\ app = "recog4"
  /\ api_key = FALSE
  /\ uploader = <<>>
  /\ ss = Defaults
  /\ screen = [msg |-> "api_key_warning", detail |-> "", raw |-> <<>>, buttons |-> {},
               zip |-> <<>>]
  /\ pc = "idle"
  /\ run = [handler |-> "", req |-> FALSE, cached |-> FALSE, reply |-> NoReply]
  /\ chain = <<>>
  /\ last = ""

\* DirectParse taking every text for one that fails to parse
DirectParseSkipped ==
  /\ norm.stage = "direct"
  /\ norm' = [norm EXCEPT !.stage = "repair"]
  /\ UNCHANGED <<given, wizardVars, otherVars>>

\* StripText without the check for the empty text
StripTextUnchecked ==
  /\ norm.stage = "given"
  /\ norm' = [norm EXCEPT !.stage = "direct", !.text = Strip(given.text)]
  /\ UNCHANGED <<given, wizardVars, otherVars>>

\* raw_text = raw_text.strip(); if not raw_text: raise ValueError(...)
StripText ==
  /\ norm.stage = "given"
  /\ norm' = IF Strip(given.text) = <<>>
             THEN [norm EXCEPT !.stage = "done", !.result = ParseStripped(<<>>)]
             ELSE [norm EXCEPT !.stage = "direct", !.text = Strip(given.text)]
  /\ UNCHANGED <<given, wizardVars, otherVars>>

\* try: return json.loads(raw_text)
DirectParse ==
  /\ norm.stage = "direct"
  /\ norm' = IF json_loads(norm.text).ok
             THEN [norm EXCEPT !.stage = "done", !.result = Returned(json_loads(norm.text))]
             ELSE [norm EXCEPT !.stage = "repair"]
  /\ UNCHANGED <<given, wizardVars, otherVars>>

\* except json.JSONDecodeError: cleaned = clean_json_text(raw_text)
Repair ==
  /\ norm.stage = "repair"
  /\ norm' = [norm EXCEPT !.stage = "retry", !.cleaned = clean_json_text(norm.text)]
  /\ UNCHANGED <<given, wizardVars, otherVars>>

\* return json.loads(cleaned)
ParseRepaired ==
  /\ norm.stage = "retry"
  /\ norm' = [norm EXCEPT !.stage = "done",
                           !.result = Returned(json_loads(norm.cleaned)),
                           !.carried = IF json_loads(norm.cleaned).ok THEN <<>> ELSE norm.cleaned]
  /\ UNCHANGED <<given, wizardVars, otherVars>>

NextNormalizer == StripText \/ DirectParse \/ Repair \/ ParseRepaired

SpecNormalizer == InitNormalizer /\ [][NextNormalizer]_vars

\* the steps give what the operator parse_gemini_json gives
StepsAgree == norm.stage = "done" => norm.result = parse_gemini_json(given.text)

\* ------------------------------------------------------------------------
\* clean_json_text applied to a text and then to its own result
\* ------------------------------------------------------------------------
MaxCleanerPieces == 3

\* what the texts handed to clean_json_text are made of: a fence, the word
\* json, a comma, a closing brace, a backslash, a quote, a letter, a line break,
\* a space
CleanerPieces ==
  {Fence, JsonWord, <<",">>, <<"}">>, <<BS>>, <<QT>>, <<"a">>, <<NL>>, <<SP>>}

RECURSIVE CleanerTexts(_)
\* the texts of at most n pieces
CleanerTexts(n) ==
  IF n = 0 THEN {<<>>}
  ELSE CleanerTexts(n - 1) \cup {t \o q : t \in CleanerTexts(n - 1), q \in CleanerPieces}

InitCleaner ==
  /\ \E t \in CleanerTexts(MaxCleanerPieces) :
       given = [shape |-> "pieces", doc |-> <<>>, text |-> t]
  /\ norm = [NotStarted EXCEPT !.stage = "uncleaned"]
  /\ Idle({"normalizer"})

\* cleaned = clean_json_text(raw_text)
Clean ==
  /\ norm.stage = "uncleaned"
  /\ norm' = [norm EXCEPT !.stage = "cleaned", !.text = given.text,
                           !.cleaned = clean_json_text(given.text)]
  /\ UNCHANGED <<given, wizardVars, otherVars>>

\* clean_json_text(cleaned): the function applied to its own result
CleanAgain ==
  /\ norm.stage = "cleaned"
  /\ norm' = [norm EXCEPT !.stage = "cleaned twice", !.text = norm.cleaned,
                           !.cleaned = clean_json_text(norm.cleaned)]
  /\ UNCHANGED <<given, wizardVars, otherVars>>

NextCleaner == Clean \/ CleanAgain

SpecCleaner == InitCleaner /\ [][NextCleaner]_vars

\* ------------------------------------------------------------------------
\* Two sessions of one server in their generate phase
\* ------------------------------------------------------------------------
\* the number of files a session has uploaded
MaxUploads == 2

\* the files a session may have uploaded: two named notes.txt, one named
\* as the generated readme
PackFiles ==
  Files \cup {[name |-> "notes.txt", type |-> "text/plain", bytes |-> "other bytes"]}

RECURSIVE UploadLists(_)
\* st.session_state.uploaded_files of at most n files
UploadLists(n) ==
  IF n = 0 THEN {<<>>}
  ELSE UploadLists(n - 1) \cup {u \o <<f>> : u \in UploadLists(n - 1), f \in PackFiles}

\* each session has its code generated and its project files cached, and
\* is about to render the downloads
InitPackager ==
  /\ Idle({"packager"})
  /\ disk = <<>>
  /\ sessions \in [{1, 2} ->
       {[uploaded_files |-> u, project_files |-> ProjectFiles(app, TxtCode, u),
         at |-> "zip", offered |-> <<>>] : u \in UploadLists(MaxUploads)}]

\* zip_path = zip_project(st.session_state.project_files)
ZipProject(n) ==
  /\ sessions[n].at = "zip"
  /\ disk' = zip_project(sessions[n].project_files)
  /\ sessions' = [sessions EXCEPT ![n].at = "open"]
  /\ UNCHANGED <<wizardVars, normVars, recVars, toolVars>>

\* with open(zip_path, "rb") as f: st.download_button(..., data=f, ...)
OfferArchive(n) ==
  /\ sessions[n].at = "open"
  /\ sessions' = [sessions EXCEPT ![n].at = "shown", ![n].offered = disk]
  /\ UNCHANGED <<disk, wizardVars, normVars, recVars, toolVars>>

\* the next run of the session's script
RenderAgain(n) ==
  /\ sessions[n].at = "shown"
  /\ sessions' = [sessions EXCEPT ![n].at = "zip"]
  /\ UNCHANGED <<disk, wizardVars, normVars, recVars, toolVars>>

NextPackager == \E n \in {1, 2} : ZipProject(n) \/ OfferArchive(n) \/ RenderAgain(n)

SpecPackager == InitPackager /\ [][NextPackager]_vars

\* ------------------------------------------------------------------------
\* The recognizers: recog.py (one image) and recog3.py (images and PDFs)
\* ------------------------------------------------------------------------
\* the longest PDF uploaded
MaxPages == 3

\* what a page of a PDF can show
PageImages == {"a", "b"}

RECURSIVE PageLists(_)
\* the PDFs of 1 to n pages, each the sequence of its pages
PageLists(n) ==
  IF n = 0 THEN {}
  ELSE {<<g>> : g \in PageImages}
         \cup PageLists(n - 1)
         \cup {l \o <<g>> : l \in PageLists(n - 1), g \in PageImages}

\* the files the uploader of a recognizer takes: images for both, one of them
\* empty for recog.py, and PDFs for recog3.py, one of them unreadable
Uploadable(prog) ==
  {[type |-> "image/jpeg", bytes |-> Bytes("image", <<"a">>)],
   [type |-> "image/png", bytes |-> Bytes("image", <<"b">>)]}
    \cup (IF prog = "recog"
          THEN {[type |-> "image/jpeg", bytes |-> Bytes("empty", <<>>)]}
          ELSE {[type |-> "application/pdf", bytes |-> Bytes("pdf", l)] :
                  l \in PageLists(MaxPages)}
                 \cup {[type |-> "application/pdf", bytes |-> Bytes("corrupt", <<>>)]})

\* what requests.get(url_input) does: it raises, or .content is some bytes,
\* possibly none at all
Fetches ==
  {[raises |-> TRUE, content |-> NoBytes],
   [raises |-> FALSE, content |-> Bytes("fetched", <<"c">>)],
   [raises |-> FALSE, content |-> Bytes("empty", <<>>)]}
NoFetch == [raises |-> FALSE, content |-> NoBytes]

Prompts == {"Describe", "What is this?"}

\* not image_bytes
Falsy(b) == b.kind \in {"none", "empty"}

\* a text given in contents
TextPart(text) == [text |-> text]
\* types.Part.from_bytes(data=..., mime_type=...)
Part(data, mime_type) == [data |-> data, mime_type |-> mime_type]

\* image_to_bytes(page): the page saved as JPEG
image_to_bytes(pil_image) == Bytes("jpeg", <<pil_image>>)
\* pdf_to_images(pdf_bytes): the pages as images, in the order of the document
pdf_to_images(pdf_bytes) == pdf_bytes.pages

\* what a run did: the messages it showed, the contents of the request it
\* sent if it sent one, and whether the button was clicked
Did(msgs, sent, contents, btn) ==
  [msgs |-> msgs, sent |-> sent, contents |-> contents, clicked |-> btn]

\* client.models.generate_content(contents=...) inside try / except, and the
\* answer or the error shown
Request(msgs, contents, gw) ==
  Did(msgs \cup {IF gw.raises THEN "api_error" ELSE "response"}, TRUE, contents, TRUE)

\* recog.py with the button clicked although image_bytes is empty
GenerateAnswerUnchecked(msgs, image_bytes, prompt, gw) ==
  Request(msgs, <<TextPart(prompt), Part(image_bytes, "image/jpeg")>>, gw)

\* recog.py: if st.button("Generate Answer"): ...
GenerateAnswer(msgs, image_bytes, prompt, gw) ==
  IF Falsy(image_bytes)
  THEN Did(msgs \cup {"no_image_warning"}, FALSE, <<>>, TRUE)
  ELSE Request(msgs, <<TextPart(prompt), Part(image_bytes, "image/jpeg")>>, gw)

\* recog.py, one run with the key given: image_bytes from the upload, else
\* from the URL (fetched in every run, a failure shown), then the button
recog(uploaded_img, url_input, prompt, btn, fetch, gw) ==
  LET fetched == uploaded_img = NoFile /\ url_input # ""
      msgs == IF fetched /\ fetch.raises THEN {"url_error"} ELSE {}
      image_bytes == IF uploaded_img # NoFile THEN uploaded_img.bytes
                     ELSE IF fetched /\ ~fetch.raises THEN fetch.content
                     ELSE NoBytes
  IN IF btn THEN GenerateAnswer(msgs, image_bytes, prompt, gw)
     ELSE Did(msgs, FALSE, <<>>, FALSE)

\* recog3.py: only the first page of a PDF attached
PdfPartsFirstPage(pages) ==
  [i \in 1..(IF Len(pages) = 0 THEN 0 ELSE 1) |->
     Part(image_to_bytes(pages[i]), "image/jpeg")]

\* recog3.py: for i, page in enumerate(pages): ... content_parts.append(img_part)
PdfParts(pages) == [i \in 1..Len(pages) |-> Part(image_to_bytes(pages[i]), "image/jpeg")]

\* recog3.py: if uploaded_file: ... (convert_from_bytes raises on a file it
\* cannot read, and nothing catches it)
AttachUpload(uploaded_file, prompt, gw) ==
  IF uploaded_file.type \in {"image/jpeg", "image/png"}
  THEN Request({}, <<TextPart(prompt), Part(uploaded_file.bytes, uploaded_file.type)>>, gw)
  ELSE IF uploaded_file.type # "application/pdf"
  THEN Request({}, <<TextPart(prompt)>>, gw)
  ELSE IF uploaded_file.bytes.kind = "corrupt"
  THEN Did({"processing_pdf", "uncaught_exception"}, FALSE, <<>>, TRUE)
  ELSE Request({"processing_pdf"},
               <<TextPart(prompt)>> \o PdfParts(pdf_to_images(uploaded_file.bytes)), gw)

\* recog3.py: elif url_input: ...
AttachUrl(prompt, fetch, gw) ==
  IF fetch.raises
  THEN Request({"url_error"}, <<TextPart(prompt)>>, gw)
  ELSE Request({}, <<TextPart(prompt), Part(fetch.content, "image/jpeg")>>, gw)

\* recog3.py, one run with the key given: everything happens under the button
recog3(uploaded_file, url_input, prompt, btn, fetch, gw) ==
  IF ~btn THEN Did({}, FALSE, <<>>, FALSE)
  ELSE IF uploaded_file # NoFile THEN AttachUpload(uploaded_file, prompt, gw)
  ELSE IF url_input # "" THEN AttachUrl(prompt, fetch, gw)
  ELSE Request({"text_only"}, <<TextPart(prompt)>>, gw)

\* one run of a recognizer: without the key the warning and st.stop()
Recognizer(prog, key, file, url, prompt, btn, fetch, gw) ==
  IF ~key THEN Did({"api_key_warning"}, FALSE, <<>>, FALSE)
  ELSE IF prog = "recog" THEN recog(file, url, prompt, btn, fetch, gw)
  ELSE recog3(file, url, prompt, btn, fetch, gw)

\* the prompt the text area starts with
DefaultPrompt == "Describe"

InitRecognizer ==
  /\ Idle({"recognizer"})
  /\ \E prog \in {"recog", "recog3"} :
       rec = [prog |-> prog, api_key |-> FALSE, uploaded_file |-> NoFile,
              url_input |-> "", prompt |-> DefaultPrompt]
  /\ shown = Did({"api_key_warning"}, FALSE, <<>>, FALSE)

\* does this run call requests.get
Fetching(r, btn) ==
  r.api_key /\ r.uploaded_file = NoFile /\ r.url_input # "" /\ (r.prog = "recog" \/ btn)

\* One run of the recognizer with the widgets as in r; the widgets below the
\* key check forget their values in a run that stops there.
RunRecognizer(r, btn) ==
  \E fetch \in (IF Fetching(r, btn) THEN Fetches ELSE {NoFetch}),
     gw \in {[raises |-> TRUE], [raises |-> FALSE]} :
    /\ shown' = Recognizer(r.prog, r.api_key, r.uploaded_file, r.url_input, r.prompt,
                           btn, fetch, gw)
    /\ rec' = IF r.api_key THEN r
              ELSE [r EXCEPT !.uploaded_file = NoFile, !.url_input = "",
                             !.prompt = DefaultPrompt]
    /\ UNCHANGED <<wizardVars, normVars, packVars, toolVars>>

EnterApiKey == \E k \in BOOLEAN \ {rec.api_key} : RunRecognizer([rec EXCEPT !.api_key = k], FALSE)

UploadFile ==
  /\ rec.api_key
  /\ \E f \in (Uploadable(rec.prog) \cup {NoFile}) \ {rec.uploaded_file} :
       RunRecognizer([rec EXCEPT !.uploaded_file = f], FALSE)

PasteUrl ==
  /\ rec.api_key
  /\ \E u \in {"", "url"} \ {rec.url_input} :
       RunRecognizer([rec EXCEPT !.url_input = u], FALSE)

EditPrompt ==
  /\ rec.api_key
  /\ \E q \in Prompts \ {rec.prompt} : RunRecognizer([rec EXCEPT !.prompt = q], FALSE)

\* the button Generate Answer, or Analyze with Gemini
Analyze == rec.api_key /\ RunRecognizer(rec, TRUE)

NextRecognizer == EnterApiKey \/ UploadFile \/ PasteUrl \/ EditPrompt \/ Analyze

SpecRecognizer == InitRecognizer /\ [][NextRecognizer]_vars

\* ------------------------------------------------------------------------
\* The image tool: img.py
\* ------------------------------------------------------------------------
\* the images uploaded: a photograph, and a drawing with an alpha channel
Pictures == {Picture("photo", "RGB"), Picture("drawing", "RGBA")}

\* the categories of the selectbox
Categories ==
  <<"Basic Adjustments", "Filters & Effects", "Transformations", "Edge & Feature Detection">>

\* the values the user gives the sliders of Basic Adjustments, in tenths
Factors == {5, 10, 20}
\* the sliders of the category Basic Adjustments, in the order of the sidebar
Sliders == <<"brightness", "contrast", "sharpness", "color">>
Effects == {"Original", "Grayscale", "Sepia", "Invert", "Blur", "Sketch"}
BlurRates == {15, 21}
Angles == {0 - 90, 0, 90}
Flips == {"None", "Horizontal", "Vertical"}
Algorithms == {"Canny Edge", "Thresholding"}
Thresholds == {100, 127, 200}

\* img with the operation op applied to it
Applied(img, op, args) == [img EXCEPT !.ops = Append(@, [op |-> op, args |-> args])]

\* image.convert('RGB')
ConvertRGB(img) == [img EXCEPT !.pil_mode = "RGB"]

\* ImageEnhance.<kind>(img).enhance(factor): the factor 1.0 gives a copy
Enhance(img, kind, factor) == IF factor = 10 THEN img ELSE Applied(img, kind, <<factor>>)

\* img.rotate(angle, expand=True): the angle 0 gives a copy
Rotate(img, angle) == IF angle % 360 = 0 THEN img ELSE Applied(img, "Rotate", <<angle>>)

\* Basic Adjustments with the brightness slider alone applied
BasicAdjustmentsBrightnessOnly(image, w) == Enhance(image, "Brightness", w.brightness)

\* if mode == "Basic Adjustments": the four enhancers, each on the result of
\* the one before, starting from the image as it was opened
BasicAdjustments(image, w) ==
  Enhance(Enhance(Enhance(Enhance(image, "Brightness", w.brightness),
                          "Contrast", w.contrast),
                  "Sharpness", w.sharpness),
          "Color", w.color)

\* elif mode == "Filters & Effects": the effect of the radio on img_array
FiltersAndEffects(img_array, w) ==
  CASE w.effect = "Original" -> img_array
    [] w.effect = "Blur" -> Applied(img_array, "Blur", <<w.blur_rate>>)
    [] OTHER -> Applied(img_array, w.effect, <<>>)

\* elif mode == "Transformations": the rotation, then the flip chosen
Transformations(img_array, w) ==
  CASE w.flip = "Horizontal" -> Applied(Rotate(img_array, w.angle), "Mirror", <<>>)
    [] w.flip = "Vertical" -> Applied(Rotate(img_array, w.angle), "Flip", <<>>)
    [] OTHER -> Rotate(img_array, w.angle)

\* elif mode == "Edge & Feature Detection"
EdgeDetection(img_array, w) ==
  IF w.algo = "Canny Edge"
  THEN Applied(img_array, "Canny Edge", <<w.t1, w.t2>>)
  ELSE Applied(img_array, "Thresholding", <<w.thresh_val>>)

\* main(): processed_img of a run with the widgets w
main(w) ==
  IF w.uploaded_file = NoImage THEN NoImage
  ELSE CASE w.mode = "Basic Adjustments" -> BasicAdjustments(w.uploaded_file, w)
         [] w.mode = "Filters & Effects" ->
              FiltersAndEffects(ConvertRGB(w.uploaded_file), w)
         [] w.mode = "Transformations" -> Transformations(ConvertRGB(w.uploaded_file), w)
         [] OTHER -> EdgeDetection(ConvertRGB(w.uploaded_file), w)

\* the widgets a run with the widgets w puts on the page
OnPage(w) ==
  IF w.uploaded_file = NoImage THEN {"uploaded_file"}
  ELSE {"uploaded_file", "mode"} \cup
       (CASE w.mode = "Basic Adjustments" -> Range(Sliders)
          [] w.mode = "Filters & Effects" ->
               {"effect"} \cup (IF w.effect = "Blur" THEN {"blur_rate"} ELSE {})
          [] w.mode = "Transformations" -> {"angle", "flip"}
          [] OTHER -> {"algo"} \cup (IF w.algo = "Canny Edge" THEN {"t1", "t2"}
                                     ELSE {"thresh_val"}))

\* a widget left off the page forgets its value
Kept(w) == [k \in DOMAIN w |-> IF k \in OnPage(w) THEN w[k] ELSE Widgets(NoImage)[k]]

InitTool ==
  /\ Idle({"image tool"})
  /\ tool = Widgets(NoImage)
  /\ processed = NoImage

\* One run of the script with the widgets as in w.
RunTool(w) ==
  /\ tool' = Kept(w)
  /\ processed' = main(w)
  /\ UNCHANGED <<wizardVars, normVars, packVars, recVars>>

\* the user sets the widget k to the value v: it is on the page, and v is new
Set(k, v) == [tool EXCEPT ![k] = v]
Settable(k, v) == k \in OnPage(tool) /\ tool[k] # v

UploadImage ==
  \E f \in Pictures \cup {NoImage} :
    Settable("uploaded_file", f) /\ RunTool(Set("uploaded_file", f))

ChooseCategory ==
  \E m \in Range(Categories) : Settable("mode", m) /\ RunTool(Set("mode", m))

MoveSlider ==
  \E k \in Range(Sliders), f \in Factors : Settable(k, f) /\ RunTool(Set(k, f))

SelectEffect ==
  \/ \E e \in Effects : Settable("effect", e) /\ RunTool(Set("effect", e))
  \/ \E b \in BlurRates : Settable("blur_rate", b) /\ RunTool(Set("blur_rate", b))

Transform ==
  \/ \E a \in Angles : Settable("angle", a) /\ RunTool(Set("angle", a))
  \/ \E f \in Flips : Settable("flip", f) /\ RunTool(Set("flip", f))

DetectEdges ==
  \/ \E a \in Algorithms : Settable("algo", a) /\ RunTool(Set("algo", a))
  \/ \E k \in {"t1", "t2", "thresh_val"}, v \in Thresholds :
       Settable(k, v) /\ RunTool(Set(k, v))

NextTool ==
  UploadImage \/ ChooseCategory \/ MoveSlider \/ SelectEffect \/ Transform \/ DetectEdges

SpecTool == InitTool /\ [][NextTool]_vars

\* ------------------------------------------------------------------------
\* Properties of the wizard
\* ------------------------------------------------------------------------
RequestPhases == {"planning", "designing", "generate"}
RetryButtons == {"RetryPlanning", "RetryDesign"}

\* C1: between two user actions no phase sends a second request to the
\* gateway: the requests made since the last user action are of distinct
\* phases
NoAutomaticRetry ==
  \A i, j \in 1..Len(chain) : i # j => chain[i] # chain[j]

Successor(phase) ==
  CASE phase = "collect" -> "planning"
    [] phase = "planning" -> "designing"
    [] phase = "designing" -> "finalize"
    [] phase = "finalize" -> "generate"
    [] OTHER -> "none"

\* C2: a step that changes the phase moves it to its successor in
\* collect, planning, designing, finalize, generate, or resets the whole
\* session to its defaults, the phase to collect; no phase is skipped or
\* gone back to, and generate is left only by the reset
PhaseMonotonic ==
  [][ss'.phase # ss.phase => ss'.phase = Successor(ss.phase) \/ ss' = Defaults]_vars

\* C2 at work: generate was reached and left by Start New Project
ResetFromGenerate == last = "StartNew" /\ ss.phase = "collect" /\ pc = "idle"

\* C3: in designing, finalize and generate the cached planning response is
\* a parsed JSON object, and in finalize and generate the cached design
\* response is one too
ResponsesObtained ==
  /\ ss.phase \in {"designing", "finalize", "generate"} => ss.planning_response.t = "obj"
  /\ ss.phase \in {"finalize", "generate"} => ss.design_response.t = "obj"

\* C3 at work: generate reached, the code cached
GenerateReached ==
  ss.phase = "generate" /\ pc = "idle" /\ ss.generated_code # None

\* the reply of a run's request parsed
ReplyParsed(r) ==
  /\ r.req
  /\ r.handler \in {"planning", "designing"}
  /\ ~r.reply.raises
  /\ Strip(r.reply.text) # <<>>
  /\ Parsed(Strip(r.reply.text)).err = ""

\* C4: a run of planning, designing or generate sends a request to the
\* gateway exactly when its result is not cached at the start of the run; a
\* parsed response is in the cache when the run ends, a rerun pending; a run
\* of collect or finalize sends none
OneRequestPerRender ==
  /\ run.handler \in RequestPhases => (run.req <=> ~run.cached)
  /\ ReplyParsed(run) =>
       /\ ss[CacheKey(run.handler)] = Parsed(Strip(run.reply.text)).val
       /\ pc = "rerun"
  /\ run.handler \notin RequestPhases => ~run.req

\* the request of a run failed: the gateway raised or gave a text that is
\* empty once stripped
GatewayFailed(r) == r.req /\ (r.reply.raises \/ Strip(r.reply.text) = <<>>)

\* C5: a run whose request failed shows a message and leaves the phase and
\* the cache as they were: the responses, the code, the project files
GatewayFailureKeepsState ==
  [][GatewayFailed(run') =>
       /\ screen'.msg \in {"gateway_error", "empty_response", "invalid_json_or_error"}
       /\ ss'.phase = ss.phase
       /\ ss'.planning_response = ss.planning_response
       /\ ss'.design_response = ss.design_response
       /\ ss'.generated_code = ss.generated_code
       /\ ss'.project_files = ss.project_files]_vars

\* the reply of a run's request is a text that does not parse
ParseFailed(r) ==
  /\ r.req
  /\ r.handler \in {"planning", "designing"}
  /\ ~r.reply.raises
  /\ Strip(r.reply.text) # <<>>
  /\ Parsed(Strip(r.reply.text)).err # ""

RetryOf(phase) == IF phase = "planning" THEN "RetryPlanning" ELSE "RetryDesign"

\* C6: a run of planning or designing whose reply does not parse shows the
\* text of the reply and a retry button, puts no response in the cache and
\* leaves the phase as it was
ParseFailureShown ==
  [][ParseFailed(run') =>
       /\ screen'.msg \in {"invalid_json", "invalid_json_or_error"}
       /\ screen'.raw = Strip(run'.reply.text)
       /\ RetryOf(run'.handler) \in screen'.buttons
       /\ ss'[CacheKey(run'.handler)] \in {ss[CacheKey(run'.handler)], None}
       /\ ss'.phase = ss.phase]_vars

\* C7: a click on a retry button is followed by exactly one request to the
\* gateway before the next user action: the run the click starts sends one,
\* and once that one has brought a text that does not parse, or a response
\* that is not empty is in the cache, the rerun that follows sends none
\* (the responses that parse to an empty value are the matter of C1)
RetryIsOneShot ==
  [][/\ (pc = "idle" /\ last' \in RetryButtons) => run'.req
     /\ (/\ last \in RetryButtons
         /\ pc = "rerun"
         /\ run.req
         /\ ParseFailed(run) \/ Truthy(ss[CacheKey(run.handler)]))
          => ~run'.req]_vars

\* C8: no run ends in an exception the script does not catch
NoErrorIsFatal == screen.msg # "uncaught_exception"

\* C9: once a click on Reset or Start New Project is served and the page is
\* idle again, every field of the session has its default
ResetReinitializes ==
  (last \in {"Reset", "StartNew"} /\ pc = "idle") => ss = Defaults

\* ------------------------------------------------------------------------
\* Properties of parse_gemini_json
\* ------------------------------------------------------------------------
\* C10: a valid JSON document in a fenced block tagged json parses to what
\* the document parses to on its own
FencedLikeUnfenced ==
  (norm.stage = "done" /\ given.shape = "json_fence" /\ json_loads(given.doc).ok)
    => norm.result = Returned(json_loads(given.doc))

\* C11: a text that is a JSON document but for a comma right before its
\* closing brace or bracket parses to what the document parses to
TrailingCommaRepaired ==
  (norm.stage = "done" /\ given.shape = "trailing_comma" /\ json_loads(given.doc).ok)
    => norm.result = Returned(json_loads(given.doc))

\* a text of white space alone, the empty text too
IsBlank(text) == \A i \in 1..Len(text) : text[i] \in Whitespace

\* C12: on a text that is empty or white space alone parse_gemini_json goes
\* from the strip straight to its end, where it has raised ValueError: no
\* parse is tried and no value returned
EmptyTextFails ==
  IsBlank(given.text) /\ norm.stage # "" =>
    /\ norm.stage \in {"given", "done"}
    /\ norm.stage = "done" => norm.result = [err |-> "ValueError", val |-> None]

\* C12 at work: a text of white space has been refused
BlankRefused == norm.stage = "done" /\ given.text # <<>> /\ IsBlank(given.text)

\* C13: the JSONDecodeError parse_gemini_json ends with, when the text and
\* the repaired text both fail to parse, carries the raw text it was given
\* (as given or stripped), not the repaired text; stated of the texts made
\* of what is no JSON document
FailureCarriesRawText ==
  (norm.stage = "done" /\ norm.result.err = "JSONDecodeError" /\ ~json_loads(given.doc).ok)
    => norm.carried \in {given.text, norm.text}

\* the raw text of the scenario: {"a":1,} in a fenced code block tagged json
ScenarioText ==
  Fence \o JsonWord \o <<NL, "{">> \o Quoted(<<"a">>) \o <<":", "1", ",", "}", NL>> \o Fence

\* C21: parse_gemini_json parses the stripped text first and ends there with
\* the value when the text is valid JSON, nothing repaired; only a text that
\* fails goes on to the repairs, done in the order open fence, close fence,
\* leading json word, escaped quotes, trailing commas, and the repaired text
\* is parsed once, which ends the call; the text of the scenario gives the
\* object with the one member a of value 1.
DirectParseThenOneRepair ==
  [][/\ norm.stage # "done"
     /\ norm.stage = "direct" =>
          IF json_loads(norm.text).ok
          THEN /\ norm'.stage = "done"
               /\ norm'.result = [err |-> "", val |-> json_loads(norm.text).val]
               /\ norm'.cleaned = <<>> /\ norm'.text = Strip(given.text)
          ELSE norm'.stage = "repair" /\ norm'.text = norm.text
     /\ norm.stage = "repair" =>
          /\ norm'.stage = "retry"
          /\ norm'.cleaned =
               Strip(SubTrailingComma(
                       UnescapeQuotes(
                         DropJsonWord(SubCloseFence(Strip(SubOpenFence(norm.text, 1)), 1)),
                         1),
                       1))
     /\ norm.stage = "retry" =>
          /\ norm'.stage = "done"
          /\ norm'.result = Returned(json_loads(norm.cleaned))
     /\ (norm'.stage = "done" /\ given.text = ScenarioText) =>
          norm'.result = [err |-> "", val |-> JObj(<<"a">> :> JNum(1))]]_vars

\* the text of the scenario has been parsed, after one repair
ScenarioParsed ==
  /\ norm.stage = "done" /\ given.text = ScenarioText
  /\ norm.cleaned = <<"{">> \o Quoted(<<"a">>) \o <<":", "1", "}">>

\* ------------------------------------------------------------------------
\* Properties of the archive
\* ------------------------------------------------------------------------
\* the archive zip has an entry of this name with this content
HasEntry(zip, name, content) ==
  \E i \in 1..Len(zip) : zip[i].name = name /\ zip[i].data = content

\* C14: the archive offered in the generate phase holds the generated code
\* as generated_app.py, the generated readme as README.md, and every
\* uploaded file of the session under its name with its bytes
ArchiveHoldsEverything ==
  screen.msg = "success" =>
    /\ HasEntry(screen.zip, "generated_app.py", ss.generated_code)
    /\ HasEntry(screen.zip, "README.md", [t |-> "str", v |-> Readme(app)])
    /\ \A i \in 1..Len(ss.uploaded_files) :
         HasEntry(screen.zip, ss.uploaded_files[i].name,
                  [t |-> "bytes", v |-> ss.uploaded_files[i].bytes])

\* what session n put into its mapping, in order: name and content
Inserted(n) ==
  <<[name |-> "generated_app.py", content |-> JStr(TxtCode)],
    [name |-> "README.md", content |-> [t |-> "str", v |-> Readme(app)]]>>
    \o [i \in 1..Len(sessions[n].uploaded_files) |->
          [name |-> sessions[n].uploaded_files[i].name,
           content |-> [t |-> "bytes", v |-> sessions[n].uploaded_files[i].bytes]]]

\* the content put last under the name of the i-th of ins
LastContent(ins, i) ==
  ins[CHOOSE j \in i..Len(ins) :
        ins[j].name = ins[i].name /\ \A k \in (j + 1)..Len(ins) : ins[k].name # ins[i].name].content

\* C15: a call of zip_project leaves at the fixed path an archive that has
\* one entry for each name put into the mapping and no other, each with the
\* content put last under its name, whatever archive was there before
ZipWritesTheMapping ==
  [][\A n \in {1, 2} :
       (sessions[n].at = "zip" /\ sessions'[n].at = "open") =>
         /\ \A i, j \in 1..Len(disk') : disk'[i].name = disk'[j].name => i = j
         /\ \A i \in 1..Len(disk') : \E k \in 1..Len(Inserted(n)) :
              Inserted(n)[k].name = disk'[i].name
         /\ \A k \in 1..Len(Inserted(n)) :
              HasEntry(disk', Inserted(n)[k].name, LastContent(Inserted(n), k))]_vars

\* C15 at work: an archive replaced one with more entries, and a name of
\* its mapping was put in twice
SmallerArchiveWritten ==
  \E n \in {1, 2} :
    /\ sessions[n].at = "open"
    /\ disk = zip_project(sessions[n].project_files)
    /\ Len(disk) < Len(Inserted(n))
    /\ \E m \in {1, 2} : Len(sessions[m].offered) > Len(disk)

\* C16: the archive a session offers for download holds that session's
\* project files
OwnArchiveOffered ==
  \A n \in DOMAIN sessions :
    sessions[n].at = "shown" => sessions[n].offered = zip_project(sessions[n].project_files)

\* ------------------------------------------------------------------------
\* Properties of the credential check
\* ------------------------------------------------------------------------
\* the session keys that hold the phase and the cached gateway results
CachedKeys ==
  {"phase", "planning_response", "design_response", "generated_code", "project_files"}

\* C17: a run of the script with the API key box empty ends at the warning:
\* it issues no gateway request, runs no phase handler, and leaves the phase
\* and the cached results of the session as they were.
MissingKeyHalts ==
  [][~api_key' =>
       /\ screen'.msg = "api_key_warning"
       /\ screen'.buttons = {}
       /\ ~run'.req
       /\ run'.handler = ""
       /\ pc' = "idle"
       /\ \A k \in CachedKeys : ss'[k] = ss[k]]_vars

\* the key was cleared in the planning phase with no response cached, where a
\* run with a key would call the gateway
KeyClearedBeforeRequest ==
  /\ ~api_key /\ screen.msg = "api_key_warning"
  /\ ss.phase = "planning" /\ ~Truthy(ss.planning_response)

\* ------------------------------------------------------------------------
\* Properties of the recognizers
\* ------------------------------------------------------------------------
\* the button was clicked with no input at hand: nothing uploaded, and no
\* URL given or the fetch of the URL failed
AnalyzedWithoutInput ==
  /\ shown.clicked
  /\ rec.uploaded_file = NoFile
  /\ rec.url_input = "" \/ "url_error" \in shown.msgs

\* C18: in both recognizers the analyze button clicked with no input at hand
\* gives a warning and sends no request to the gateway.
NoInputNoRequest ==
  AnalyzedWithoutInput => "no_image_warning" \in shown.msgs /\ ~shown.sent

\* C18, amended: the analyze button clicked with no input at hand gives a
\* warning and sends no request in recog.py; in recog3.py it sends the request
\* with the prompt alone, announced as text-only mode when there is neither
\* upload nor URL, and after the error message when the fetch of the URL failed.
NoInputWarnsOrTextOnly ==
  AnalyzedWithoutInput =>
    IF rec.prog = "recog"
    THEN "no_image_warning" \in shown.msgs /\ ~shown.sent
    ELSE /\ shown.sent /\ shown.contents = <<TextPart(rec.prompt)>>
         /\ "no_image_warning" \notin shown.msgs
         /\ rec.url_input = "" <=> "text_only" \in shown.msgs

\* recog.py: the button clicked after the fetch of the pasted URL failed
AnalyzedAfterFailedFetch ==
  /\ AnalyzedWithoutInput /\ rec.prog = "recog"
  /\ rec.url_input # "" /\ "url_error" \in shown.msgs

\* the button was clicked in recog3.py with a readable PDF uploaded
AnalyzedPdf ==
  /\ shown.clicked /\ rec.prog = "recog3"
  /\ rec.uploaded_file.type = "application/pdf"
  /\ rec.uploaded_file.bytes.kind = "pdf"

\* C19: recog3.py with a PDF of n pages uploaded sends the prompt followed by
\* n image attachments, the i-th the JPEG of page i; with any file uploaded
\* the request carries nothing fetched from the pasted URL.
PdfPagesAttachedInOrder ==
  /\ AnalyzedPdf =>
       LET pages == rec.uploaded_file.bytes.pages
       IN /\ shown.sent
          /\ Len(shown.contents) = Len(pages) + 1
          /\ shown.contents[1] = TextPart(rec.prompt)
          /\ \A i \in 1..Len(pages) :
               shown.contents[i + 1] = [data |-> [kind |-> "jpeg", pages |-> <<pages[i]>>],
                                        mime_type |-> "image/jpeg"]
  /\ (shown.clicked /\ rec.prog = "recog3" /\ rec.uploaded_file # NoFile) =>
       /\ "url_error" \notin shown.msgs
       /\ \A i \in 2..Len(shown.contents) : shown.contents[i].data.kind # "fetched"

\* a PDF of three pages, not all alike, analyzed with a URL pasted as well
ThreePagePdfAnalyzed ==
  /\ AnalyzedPdf /\ rec.url_input # ""
  /\ rec.uploaded_file.bytes.pages = <<"a", "b", "a">>
  /\ shown.sent

\* ------------------------------------------------------------------------
\* Properties of the image tool
\* ------------------------------------------------------------------------
\* C20: with an image loaded the processed image is the input image with at
\* most one effect of the menu applied, never two or more in one pass.
AtMostOneEffect ==
  tool.uploaded_file # NoImage =>
    processed.src = tool.uploaded_file.src /\ Len(processed.ops) <= 1

\* the category an operation belongs to
Category(op) ==
  CASE op \in {"Brightness", "Contrast", "Sharpness", "Color"} -> "Basic Adjustments"
    [] op \in {"Grayscale", "Sepia", "Invert", "Blur", "Sketch"} -> "Filters & Effects"
    [] op \in {"Rotate", "Mirror", "Flip"} -> "Transformations"
    [] OTHER -> "Edge & Feature Detection"

\* the place of an operation in the pipeline of its category
Rank(op) ==
  CASE op \in {"Brightness", "Rotate"} -> 1
    [] op \in {"Contrast", "Mirror", "Flip"} -> 2
    [] op = "Sharpness" -> 3
    [] op = "Color" -> 4
    [] OTHER -> 1

\* the adjustment a slider asks for: none at 1.0
Adjustment(kind, factor) ==
  IF factor = 10 THEN {} ELSE {[op |-> kind, args |-> <<factor>>]}

\* the operations the widgets now on the page ask for: an adjustment per
\* slider off 1.0, the effect selected, the rotation by an angle off 0 and
\* the flip selected, the edge algorithm selected
Wanted ==
  CASE tool.mode = "Basic Adjustments" ->
         Adjustment("Brightness", tool.brightness)
           \cup Adjustment("Contrast", tool.contrast)
           \cup Adjustment("Sharpness", tool.sharpness)
           \cup Adjustment("Color", tool.color)
    [] tool.mode = "Filters & Effects" ->
         IF tool.effect = "Original" THEN {}
         ELSE IF tool.effect = "Blur" THEN {[op |-> "Blur", args |-> <<tool.blur_rate>>]}
         ELSE {[op |-> tool.effect, args |-> <<>>]}
    [] tool.mode = "Transformations" ->
         (IF tool.angle = 0 THEN {} ELSE {[op |-> "Rotate", args |-> <<tool.angle>>]})
           \cup (IF tool.flip = "Horizontal" THEN {[op |-> "Mirror", args |-> <<>>]}
                 ELSE IF tool.flip = "Vertical" THEN {[op |-> "Flip", args |-> <<>>]}
                 ELSE {})
    [] OTHER ->
         IF tool.algo = "Canny Edge"
         THEN {[op |-> "Canny Edge", args |-> <<tool.t1, tool.t2>>]}
         ELSE {[op |-> "Thresholding", args |-> <<tool.thresh_val>>]}

\* C20, amended: with an image loaded the processed image is the input image
\* with the pipeline of the selected category applied once: its operations
\* all belong to that category, come in the order of the pipeline, each at
\* most once, and are those the widgets now on the page ask for; in the
\* categories of effects and of edge detection there is at most one.
OnePipelineOfCategory ==
  tool.uploaded_file # NoImage =>
    /\ processed.src = tool.uploaded_file.src
    /\ \A i \in DOMAIN processed.ops : Category(processed.ops[i].op) = tool.mode
    /\ \A i, j \in DOMAIN processed.ops :
         i < j => Rank(processed.ops[i].op) < Rank(processed.ops[j].op)
    /\ Range(processed.ops) = Wanted
    /\ tool.mode \in {"Filters & Effects", "Edge & Feature Detection"} =>
         Len(processed.ops) <= 1

\* brightness and contrast both moved off 1.0 on a loaded image
BrightnessAndContrastApplied ==
  /\ tool.uploaded_file # NoImage /\ tool.mode = "Basic Adjustments"
  /\ tool.brightness # 10 /\ tool.contrast # 10
  /\ Len(processed.ops) >= 2

\* ------------------------------------------------------------------------
\* Properties of the session
\* ------------------------------------------------------------------------
\* C22: in the collect phase the session holds nothing of a project: no
\* planning response, no design response, no generated code, no answers and
\* no project files.
CollectHoldsNoProject ==
  ss.phase = "collect" =>
    /\ ss.planning_response = None /\ ss.design_response = None
    /\ ss.generated_code = None
    /\ ss.planning_answers = <<>> /\ ss.design_answers = <<>>
    /\ ss.project_files = <<>>

\* back in collect after Reset Project was clicked in a later phase
CollectAfterReset == last = "Reset" /\ ss.phase = "collect" /\ pc = "idle"

\* the names of the files of a project file set
FileNames(files) == {files[i].name : i \in 1..Len(files)}

\* C23: the cached results are filled in the order of the phases: a design
\* response only with a planning response, generated code only with both
\* responses and in the generate phase, project files only with generated
\* code that is not empty, generated_app.py and README.md among them.
CachedInPhaseOrder ==
  /\ ss.design_response # None => ss.planning_response # None
  /\ ss.generated_code # None =>
       /\ ss.planning_response # None /\ ss.design_response # None
       /\ ss.phase = "generate"
  /\ ss.project_files # <<>> =>
       /\ Truthy(ss.generated_code)
       /\ {"generated_app.py", "README.md"} \subseteq FileNames(ss.project_files)

\* the buttons that reset the session
ResetButtons == {"Reset", "StartNew"}

\* the phase whose handler fills a session key
PhaseOf(key) ==
  CASE key = "planning_response" -> "planning"
    [] key = "design_response" -> "designing"
    [] OTHER -> "generate"

\* C24: a cached planning response, design response or generated code stays
\* as it is, and its phase sends no further gateway request, in the run of
\* every user action other than a reset; the project files stay as they are
\* too.
WriteOnceUntilReset ==
  [][(pc = "idle" /\ last' \notin ResetButtons) =>
       /\ \A key \in {"planning_response", "design_response", "generated_code"} :
            ss[key] # None =>
              /\ ss'[key] = ss[key]
              /\ ~(run'.req /\ run'.handler = PhaseOf(key))
       /\ ss.project_files # <<>> => ss'.project_files = ss.project_files]_vars

\* C25: a run stores the files of the uploader as the whole list of uploaded
\* files when the uploader holds any, and leaves the list as it is when the
\* uploader is empty or the run stops at the key check; only the run of a
\* reset button empties it.  The project files built in the generate phase
\* hold every file of the list.
UploadsReplacedAsAWhole ==
  [][/\ ss'.uploaded_files =
          IF ~api_key' THEN ss.uploaded_files
          ELSE IF pc = "idle" /\ last' \in ResetButtons THEN <<>>
          ELSE IF uploader' # <<>>
          THEN [i \in 1..Len(uploader') |->
                  [name |-> uploader'[i].name, type |-> uploader'[i].type,
                   bytes |-> uploader'[i].bytes]]
          ELSE ss.uploaded_files
     /\ ss'.project_files # ss.project_files =>
          \/ ss'.project_files = <<>>
          \/ \A i \in 1..Len(ss'.uploaded_files) :
               ss'.uploaded_files[i].name \in FileNames(ss'.project_files)]_vars

\* the uploader was emptied and the session still holds the files stored
UploadsKeptAfterRemoval ==
  api_key /\ pc = "idle" /\ uploader = <<>> /\ ss.uploaded_files # <<>>

\* Reset Project clicked, and the run it starts leaves the session in collect
ResetToCollect == ClickReset /\ ss'.phase = "collect"

\* C26: on every page a run leaves with the API key entered and the phase
\* past collect, whatever the phase handler did or failed to do, Reset Project
\* can be clicked and its run puts the session back in collect.
ResetAlwaysEnabled ==
  (api_key /\ pc = "idle" /\ ss.phase # "collect") =>
    "Reset" \in screen.buttons /\ ENABLED ResetToCollect

\* a page on which the phase handler stopped on a failure of the gateway
StoppedOnGatewayError ==
  /\ api_key /\ pc = "idle" /\ ss.phase # "collect"
  /\ screen.msg \in {"gateway_error", "invalid_json_or_error"}
  /\ run.req /\ run.reply.raises

\* ------------------------------------------------------------------------
\* Properties of clean_json_text
\* ------------------------------------------------------------------------
\* C27 as stated: clean_json_text applied to its own result gives that result
\* again, for every text.
CleanIdempotent == norm.stage = "cleaned twice" => norm.cleaned = norm.text

\* nothing in u for a substitution of clean_json_text to take: no fence at the
\* start of a line or at the end of one, no json at the start, no escaped
\* quote, no comma with a closing bracket or brace after it
Settled(u) ==
  /\ ~StartsAt(u, 1, JsonWord, TRUE)
  /\ \A i \in 1..Len(u) :
       /\ ~(StartsAt(u, i, Fence, FALSE) /\ (i = 1 \/ u[i - 1] = NL))
       /\ ~(StartsAt(u, i, Fence, FALSE) /\ (i + 3 > Len(u) \/ u[i + 3] = NL))
       /\ ~StartsAt(u, i, <<BS, QT>>, FALSE)
       /\ ~(/\ u[i] = ","
            /\ SkipSpace(u, i + 1) <= Len(u)
            /\ u[SkipSpace(u, i + 1)] \in {"]", "}"})

\* C27: when the result of clean_json_text holds nothing more for its
\* substitutions to take, clean_json_text applied to that result gives it again.
CleanIdempotentWhenSettled ==
  (norm.stage = "cleaned twice" /\ Settled(norm.text)) => norm.cleaned = norm.text

\* a text the first pass changed and the second pass had nothing to take from
CleanedInOnePass ==
  /\ norm.stage = "cleaned twice"
  /\ Settled(norm.text)
  /\ norm.text # <<>>
  /\ norm.text # given.text

============================================================================
